---- MODULE Spec2Model ----
(***************************************************************************)
(* Model of src/main.py: the tray utility's text transformation path       *)
(* (MenuBarApp.load_api_key, process_option, call_openai_api,              *)
(* detect_language, show_result_dialog) and its image generation dialog    *)
(* (ImageGeneratorDialog with its ImageGenerationThread and                *)
(* ImageDownloadThread workers).                                           *)
(*                                                                         *)
(* Text is a sequence of pieces (strings); text that is read character by  *)
(* character (clipboard content, API responses) is a sequence of           *)
(* one-character strings.  An f-string is the concatenation of its pieces. *)
(***************************************************************************)
EXTENDS Integers, Sequences, FiniteSets, TLC

VARIABLES
    phase,          \* "boot" before MenuBarApp.__init__ ran, then "ready" or "failed"
    config,         \* content of config.json
    fsWritable,     \* whether config.json can be opened for writing
    boot,           \* what load_api_key did at startup
    api_key,        \* MenuBarApp.api_key
    clipOk,         \* whether pyperclip has a working clipboard mechanism
    clipboard,      \* the system clipboard's text
    inv,            \* the last process_option invocation and what it did
    current_dialog, \* MenuBarApp.current_dialog
    execStack,      \* dialogs whose exec() is running, innermost last
    dialogs,        \* the ImageGeneratorDialog objects created so far
    workers,        \* the QThread workers started so far
    crashed         \* the process was aborted by Qt

vars == <<phase, config, fsWritable, boot, api_key, clipOk, clipboard, inv,
          current_dialog, execStack, dialogs, workers, crashed>>

textVars == <<phase, config, fsWritable, boot, api_key, clipOk, clipboard, inv>>
imageVars == <<execStack, dialogs, workers, crashed>>

(***************************************************************************)
(* Bounds                                                                  *)
(***************************************************************************)
MaxLen == 2          \* longest clipboard text / API response, in characters
MaxDialogs == 2      \* image dialogs opened from the tray menu
MaxWorkers == 4      \* worker threads started
MaxUrls == 3         \* longest list the image service returns

(***************************************************************************)
(* Python values                                                           *)
(***************************************************************************)
None == "<None>"
Keys == {"k1", "k2"}

\* Python truthiness of an optional string (`if not self.api_key`).
Truthy(v) == v # None /\ v # ""

Alphabet == {" ", "a", "#"}
Whitespace == {" ", "\t", "\n", "\r"}

RECURSIVE TextsOfLen(_)
TextsOfLen(n) ==
    IF n = 0 THEN {<<>>}
    ELSE {Append(t, c) : t \in TextsOfLen(n - 1), c \in Alphabet}

Texts == UNION {TextsOfLen(n) : n \in 0..MaxLen}

\* s occurs in t as a contiguous run of pieces.
Contains(t, s) ==
    \E i \in 0..(Len(t) - Len(s)) : SubSeq(t, i + 1, i + Len(s)) = s

(***************************************************************************)
(* str.strip()                                                             *)
(***************************************************************************)
RECURSIVE lstrip(_)
lstrip(t) ==
    IF t # <<>> /\ Head(t) \in Whitespace THEN lstrip(Tail(t)) ELSE t

RECURSIVE rstrip(_)
rstrip(t) ==
    IF t # <<>> /\ t[Len(t)] \in Whitespace
    THEN rstrip(SubSeq(t, 1, Len(t) - 1))
    ELSE t

strip_lstrip_only(t) == lstrip(t)

strip(t) == rstrip(lstrip(t))

(***************************************************************************)
(* detect_language (src/main.py:562-572)                                   *)
(***************************************************************************)
Fail == "<LangDetectException>"
Codes == {"pt", "en", "fr"}

\* What langdetect.detect can do on a text: it raises when the text has no
\* letters, and otherwise returns some ISO code (the classifier is
\* probabilistic: the same text can get different codes on different calls).
DetectOutcomes(text) ==
    IF \A i \in 1..Len(text) : text[i] # "a" THEN {Fail} ELSE Codes

detect_language_unspaced(lang) ==
    IF lang = Fail THEN "Unknown"
    ELSE IF lang = "pt" THEN "Portuguese (European)"
    ELSE IF lang = "en" THEN "English"
    ELSE "Other(" \o lang \o ")"

\* The label detect_language returns when detect(text) behaves as `lang`.
detect_language(lang) ==
    IF lang = Fail THEN "Unknown"
    ELSE IF lang = "pt" THEN "Portuguese (European)"
    ELSE IF lang = "en" THEN "English"
    ELSE "Other (" \o lang \o ")"

(***************************************************************************)
(* The tray-menu handlers and the prompt table (src/main.py:286-311,       *)
(* 372-404)                                                                *)
(***************************************************************************)
on_proofread == "Proofread"
on_rewrite == "Rewrite"
on_friendly == "Friendly"
on_professional == "Professional"
on_concise == "Concise"
on_summary == "Summary"
on_keypoints_unspaced == "KeyPoints"
on_keypoints == "Key Points"
on_table == "Table"
on_list == "List"

\* The operation name each of the nine handlers passes to process_option.
HandlerOptions ==
    {on_proofread, on_rewrite, on_friendly, on_professional, on_concise,
     on_summary, on_keypoints, on_table, on_list}

base_instruction ==
    "\n        Process the following text according to the given instructions. \n        IMPORTANT: \n        1. Always respond in the EXACT SAME LANGUAGE as the input text.\n        2. If the input is in Portuguese, use European Portuguese (from Portugal), not Brazilian Portuguese.\n        3. DO NOT translate the text to any other language.\n        4. Maintain the original language, dialect, and style of the input text in your response.\n        "

\* The text each entry of the prompt table puts after {base_instruction}.
instruction ==
    ( "Proofread" :> " Proofread the text, focusing on grammar, spelling, punctuation, style, and clarity. Return a corrected version." @@
      "Rewrite" :> " Rewrite the text, focusing on clarity, style, and coherence. Maintain the original meaning and tone." @@
      "Friendly" :> " Rewrite the text to make it friendlier. Focus on a warm, approachable, and conversational tone." @@
      "Professional" :> " Rewrite the text to make it more professional. Use formal, respectful language and improve clarity and structure." @@
      "Concise" :> " Rewrite the text to make it more concise. Focus on clarity and brevity while maintaining the original meaning." @@
      "Summary" :> " Summarize the text, focusing on key points and main ideas. Ensure the summary is clear and concise." @@
      "Key Points" :> " Extract the key points from the text. Present them in a bulleted or numbered list." @@
      "Table" :> " Create a table from the text. Organize the information in a clear, tabular format.\n            Use markdown-style table formatting. Follow these guidelines:\n            1. Use '|' to separate columns.\n            2. Use a row of '---' or ':---:' (for center alignment) or '---:' (for right alignment) to separate the header from the body.\n            3. Ensure proper alignment of the content for readability.\n            4. If the table is wide, consider using only essential columns to fit the data.\n            Example format:\n            | Header1 | Header2 | Header3 |\n            |---------|:-------:|--------:|\n            | Left    | Center  |   Right |\n            | Data    | Data    |    Data |\n            " @@
      "List" :> " Transform the text into a list. Break down the information into clear, concise points. Present the list in either bulleted or numbered form." )

\* prompts[option]: f"{base_instruction}<instruction>".
prompts == [k \in DOMAIN instruction |-> <<base_instruction, instruction[k]>>]

\* f"{prompts[option]}\n\nInput text language: {detect_language(input_text)}\n\n{input_text}"
full_prompt(option, input_text, label) ==
    prompts[option] \o <<"\n\nInput text language: ", label, "\n\n">> \o input_text

(***************************************************************************)
(* What happened during one process_option invocation, in order.           *)
(***************************************************************************)
Event(type, title, text) == [type |-> type, title |-> title, text |-> text]

show_error_message(title) == Event("error", title, <<>>)
Request(prompt) == Event("request", "gpt-4o-mini", prompt)
Copy(text) == Event("copy", "", text)
ResultDialog(option, content) == Event("dialog", option, content)

OfType(events, type) == SelectSeq(events, LAMBDA e : e.type = type)

(***************************************************************************)
(* The completion API's answer to one request.                             *)
(***************************************************************************)
ApiOutcomes ==
    {[kind |-> "text", content |-> t] : t \in Texts}
        \cup {[kind |-> "null", content |-> <<>>],    \* choices[0].message.content is None
              [kind |-> "error", content |-> <<>>]}   \* create() raises

call_openai_api_returns_empty(option, input_text, lang, api) ==
    IF option \notin DOMAIN prompts
    THEN [raised |-> TRUE, result |-> <<>>, events |-> <<>>]
    ELSE LET sent == <<Request(full_prompt(option, input_text, detect_language(lang)))>> IN
         IF api.kind = "text"
         THEN [raised |-> FALSE, result |-> strip(api.content), events |-> sent]
         ELSE [raised |-> FALSE, result |-> <<>>, events |-> sent]

\* call_openai_api: what it sends and what it returns or raises.  `lang` is
\* what detect() does on the input text when the prompt is built.
call_openai_api(option, input_text, lang, api) ==
    IF option \notin DOMAIN prompts
    THEN [raised |-> TRUE, result |-> <<>>, events |-> <<>>]
    ELSE LET sent == <<Request(full_prompt(option, input_text, detect_language(lang)))>> IN
         IF api.kind = "text"
         THEN [raised |-> FALSE, result |-> strip(api.content), events |-> sent]
         ELSE [raised |-> TRUE, result |-> <<>>, events |-> sent]

(***************************************************************************)
(* markdown.markdown(text, extensions=['tables']) on one-line text over    *)
(* Alphabet: a line that starts with '#' is a header whose level is the    *)
(* number of leading '#' and whose text is the rest without trailing '#'   *)
(* and surrounding whitespace; any other non-empty line is a paragraph.    *)
(***************************************************************************)
RECURSIVE LeadingHashes(_)
LeadingHashes(t) ==
    IF t # <<>> /\ Head(t) = "#" THEN 1 + LeadingHashes(Tail(t)) ELSE 0

RECURSIVE DropTrailingHashes(_)
DropTrailingHashes(t) ==
    IF t # <<>> /\ t[Len(t)] = "#"
    THEN DropTrailingHashes(SubSeq(t, 1, Len(t) - 1))
    ELSE t

HeaderTag == <<"h1", "h2", "h3", "h4", "h5", "h6">>

markdown(text) ==
    IF text = <<>> THEN <<>>
    ELSE IF Head(text) = "#"
    THEN LET n == LeadingHashes(text)
             level == IF n > 6 THEN 6 ELSE n
             header == strip(DropTrailingHashes(SubSeq(text, level + 1, Len(text))))
         IN  <<"<" \o HeaderTag[level] \o ">">> \o header
                 \o <<"</" \o HeaderTag[level] \o ">">>
    ELSE <<"<p>">> \o text \o <<"</p>">>

Copied == "The processed text has been copied to your clipboard."

\* The content show_result_dialog puts in its QTextEdit.
show_result_dialog(option, processed_text) ==
    IF option = "Table"
    THEN <<"<h3>Option: ", option, "</h3>">> \o markdown(processed_text)
             \o <<"<p>" \o Copied \o "</p>">>
    ELSE <<"Option: ", option, "\n\n">> \o processed_text \o <<"\n\n", Copied>>

(***************************************************************************)
(* process_option (src/main.py:342-367)                                    *)
(***************************************************************************)
Detection(text, lang) == [text |-> text, lang |-> lang, label |-> detect_language(lang)]

try_body_mismatch_blocks(option, input_text, langs, api) ==
    LET r == call_openai_api(option, input_text, langs[1], api)
        built == IF option \in DOMAIN prompts
                 THEN <<Detection(input_text, langs[1])>> ELSE <<>>
        detected == built \o <<Detection(input_text, langs[2]), Detection(r.result, langs[3])>>
    IN  IF r.raised
        THEN [raised |-> TRUE, events |-> r.events, detections |-> built]
        ELSE IF detect_language(langs[2]) # detect_language(langs[3])
        THEN [raised |-> FALSE,
              events |-> r.events \o <<show_error_message("Language Mismatch")>>,
              detections |-> detected]
        ELSE [raised |-> FALSE,
              events |-> r.events
                  \o <<Copy(r.result),
                       ResultDialog(option, show_result_dialog(option, r.result))>>,
              detections |-> detected]

\* The body of the try block.  langs[1] is what detect() does inside
\* call_openai_api, langs[2] on the input text and langs[3] on the result.
try_body(option, input_text, langs, api) ==
    LET r == call_openai_api(option, input_text, langs[1], api)
        built == IF option \in DOMAIN prompts
                 THEN <<Detection(input_text, langs[1])>> ELSE <<>>
    IN  IF r.raised
        THEN [raised |-> TRUE, events |-> r.events, detections |-> built]
        ELSE LET input_lang == detect_language(langs[2])
                 output_lang == detect_language(langs[3])
                 warning == IF input_lang # output_lang
                            THEN <<show_error_message("Language Mismatch")>>
                            ELSE <<>>
             IN  [raised |-> FALSE,
                  events |-> r.events \o warning
                      \o <<Copy(r.result),
                           ResultDialog(option, show_result_dialog(option, r.result))>>,
                  detections |-> built \o <<Detection(input_text, langs[2]),
                                            Detection(r.result, langs[3])>>]

process_option_uncaught(option, input_text, key, langs, api) ==
    IF input_text = <<>>
    THEN [events |-> <<show_error_message("No Text Selected")>>,
          detections |-> <<>>, propagated |-> FALSE]
    ELSE IF ~Truthy(key)
    THEN [events |-> <<show_error_message("API Key Missing")>>,
          detections |-> <<>>, propagated |-> FALSE]
    ELSE LET b == try_body(option, input_text, langs, api)
         IN  [events |-> b.events, detections |-> b.detections,
              propagated |-> b.raised]

process_option_no_key_check(option, input_text, key, langs, api) ==
    IF input_text = <<>>
    THEN [events |-> <<show_error_message("No Text Selected")>>,
          detections |-> <<>>, propagated |-> FALSE]
    ELSE LET b == try_body(option, input_text, langs, api)
         IN  [events |-> IF b.raised
                         THEN b.events \o <<show_error_message("Error")>>
                         ELSE b.events,
              detections |-> b.detections, propagated |-> FALSE]

\* What one invocation does: the events in order, the detect_language calls
\* made, and whether an exception leaves process_option.
process_option(option, input_text, key, langs, api) ==
    IF input_text = <<>>
    THEN [events |-> <<show_error_message("No Text Selected")>>,
          detections |-> <<>>, propagated |-> FALSE]
    ELSE IF ~Truthy(key)
    THEN [events |-> <<show_error_message("API Key Missing")>>,
          detections |-> <<>>, propagated |-> FALSE]
    ELSE LET b == try_body(option, input_text, langs, api)
         IN  [events |-> IF b.raised
                         THEN b.events \o <<show_error_message("Error")>>
                         ELSE b.events,
              detections |-> b.detections, propagated |-> FALSE]

\* pyperclip.paste() behind get_selected_text: "" when the clipboard cannot
\* be accessed.
get_selected_text == IF clipOk THEN clipboard ELSE <<>>

(***************************************************************************)
(* load_api_key / save_api_key (src/main.py:320-340)                       *)
(***************************************************************************)
Absent == [state |-> "absent", api_key |-> None]
Malformed == [state |-> "malformed", api_key |-> None]
Json(k) == [state |-> "json", api_key |-> k]

\* config.json as found at startup: missing, not valid JSON, or an object
\* whose api_key is missing/null, empty or a key.
ConfigFiles == {Absent, Malformed} \cup {Json(k) : k \in Keys \cup {None, ""}}

\* QInputDialog.getText: the text typed when the dialog is accepted, an
\* empty string when it is cancelled.
GetText(typed, ok) == IF ok THEN typed ELSE ""

save_api_key_other(key) == Json("")

\* The file save_api_key writes.
save_api_key(key) == Json(key)

NotBooted == [cfg0 |-> Absent, prompted |-> FALSE, typed |-> "", ok |-> FALSE]

NoInvocation ==
    [called |-> FALSE, option |-> "", input_text |-> <<>>,
     api |-> [kind |-> "error", content |-> <<>>],
     events |-> <<>>, detections |-> <<>>, propagated |-> FALSE,
     before |-> <<>>]

NoDialog == [kind |-> "none", id |-> 0]
ResultDlg == [kind |-> "result", id |-> 0]

(***************************************************************************)
(* The image generation dialog and its workers (src/main.py:22-208)        *)
(***************************************************************************)
\* What the prompt field can hold: empty as created, or a typed prompt.
Prompts == {"", "p1"}
Urls == {"u1", "u2"}

\* A value the image service returns: a str, or an object such as
\* replicate's FileOutput whose str() is its URL.
Values == [type : {"str", "FileOutput"}, url : Urls]
Str(v) == v.url

RECURSIVE ListsOfLen(_)
ListsOfLen(n) ==
    IF n = 0 THEN {<<>>}
    ELSE {Append(l, v) : l \in ListsOfLen(n - 1), v \in Values}

\* replicate.run's result: a list of values or a single value.
ServiceOutputs ==
    {[list |-> TRUE, items |-> l] : l \in UNION {ListsOfLen(n) : n \in 0..MaxUrls}}
        \cup {[list |-> FALSE, items |-> <<v>>] : v \in Values}

OneUrl == {[list |-> TRUE, items |-> <<>>],
           [list |-> TRUE, items |-> <<[type |-> "str", url |-> "u1"]>>]}

FewOutputs ==
    OneUrl \cup {[list |-> TRUE, items |-> <<[type |-> "str", url |-> "u2"]>>]}

NoOutput == [list |-> TRUE, items |-> <<>>]

normalise_reversed(output) ==
    IF output.list
    THEN [i \in 1..Len(output.items) |-> Str(output.items[Len(output.items) + 1 - i])]
    ELSE <<Str(output.items[1])>>

\* ImageGenerationThread.run, lines 59-63: the list handed to finished.emit.
normalise(output) ==
    IF output.list
    THEN [i \in 1..Len(output.items) |-> Str(output.items[i])]
    ELSE <<Str(output.items[1])>>

ImageRef(d) == [kind |-> "image", id |-> d]

Label(kind, of) == [kind |-> kind, of |-> of]

\* ImageGeneratorDialog.__init__ / initUI.
NewDialog ==
    [st |-> "open", generate_button |-> TRUE, prompt_input |-> "",
     last_prompt |-> "", output_url |-> "", image_label |-> Label("empty", ""),
     thread |-> 0, download_thread |-> 0]

\* A started QThread.  state: "running" until run() emits, "emitted" while the
\* queued signal waits for the event loop, then "handled"; "discarded" when
\* the signal had no live receiver, "killed" when the process was aborted
\* before run() emitted.
NewWorker(kind, d, arg) ==
    [kind |-> kind, dialog |-> d, arg |-> arg, state |-> "running",
     signal |-> "none", raw |-> NoOutput, payload |-> <<>>]

\* A worker whose run is over: nothing of it is read again.
Over(w, state) == [NewWorker(w.kind, w.dialog, "") EXCEPT !.state = state]

OnStack(stack, d) == \E i \in 1..Len(stack) : stack[i] = d

\* The dialog's attribute still refers to the worker's QThread object.
Held(ds, ws, w) ==
    ds[ws[w].dialog].thread = w \/ ds[ws[w].dialog].download_thread = w

\* The dialogs of `gone` are deallocated: their pending signals are dropped
\* with them.  Deallocating a QThread whose run() has not returned is fatal
\* in Qt ("QThread: Destroyed while thread is still running") unless the
\* running frame keeps the object alive: `abort` chooses between the two.
DestroyAll(gone, ds, ws, abort) ==
    LET dropped == {w \in 1..Len(ws) : /\ ws[w].state = "running"
                                       /\ ws[w].dialog \in gone
                                       /\ Held(ds, ws, w)}
        crash == abort /\ dropped # {}
    IN  [dialogs |-> [d \in 1..Len(ds) |->
                        IF d \in gone THEN [NewDialog EXCEPT !.st = "destroyed"] ELSE ds[d]],
         workers |-> [w \in 1..Len(ws) |->
                        IF crash /\ ws[w].state = "running"
                        THEN Over(ws[w], "killed")
                        ELSE IF ws[w].state = "emitted" /\ (crash \/ ws[w].dialog \in gone)
                        THEN Over(ws[w], "discarded")
                        ELSE ws[w]],
         crashed |-> crash]

\* A dialog that started a download is kept in a reference cycle by the
\* lambda connected at line 176, so only the cycle collector frees it.
Cyclic(ds, d) == ds[d].download_thread # 0

Unreferenced(cur, stack, ds, d) ==
    /\ ds[d].st \in {"open", "closed"}
    /\ cur # ImageRef(d)
    /\ ~OnStack(stack, d)

\* Reference counting after a handler changed current_dialog or a frame
\* returned: dialogs nothing refers to any more are deallocated at once.
Reap(cur, stack, ds, ws, abort) ==
    DestroyAll({d \in 1..Len(ds) : Unreferenced(cur, stack, ds, d) /\ ~Cyclic(ds, d)},
               ds, ws, abort)

\* A worker's QThread object loses its last reference while the dialog lives
\* on (self.thread / self.download_thread is overwritten).
Overwrite(ds, ws, old, abort) ==
    LET crash == abort /\ old # 0 /\ ws[old].state = "running"
    IN  [workers |-> [w \in 1..Len(ws) |->
                        IF crash /\ ws[w].state = "running"
                        THEN Over(ws[w], "killed")
                        ELSE IF crash /\ ws[w].state = "emitted"
                        THEN Over(ws[w], "discarded")
                        ELSE ws[w]],
         crashed |-> crash]

\* The outcomes of deallocating QThread objects: both when some worker's
\* run() has not returned, a plain release otherwise.
AbortChoices ==
    IF \E w \in 1..Len(workers) : workers[w].state = "running"
    THEN BOOLEAN ELSE {FALSE}

\* `if self.current_dialog: self.current_dialog.close()`
CloseCurrent(cur, ds) ==
    [d \in 1..Len(ds) |->
        IF cur = ImageRef(d) /\ ds[d].st = "open"
        THEN [ds[d] EXCEPT !.st = "closed"] ELSE ds[d]]

(***************************************************************************)
(* Startup and the text transformation handlers                            *)
(***************************************************************************)
\* MenuBarApp.__init__: load_api_key, with what the user answers to the
\* input dialog when it is shown.
LoadApiKey(typed, ok) ==
    /\ phase = "boot"
    /\ IF config = Malformed
       THEN \* json.load raises JSONDecodeError, which only FileNotFoundError is caught for
            /\ phase' = "failed"
            /\ boot' = [cfg0 |-> config, prompted |-> FALSE, typed |-> "", ok |-> FALSE]
            /\ UNCHANGED <<api_key, config>>
       ELSE LET loaded == IF config = Absent THEN None ELSE config.api_key IN
            IF Truthy(loaded)
            THEN /\ api_key' = loaded
                 /\ phase' = "ready"
                 /\ boot' = [cfg0 |-> config, prompted |-> FALSE, typed |-> "", ok |-> FALSE]
                 /\ UNCHANGED config
            ELSE LET text == GetText(typed, ok) IN
                 /\ api_key' = text
                 /\ boot' = [cfg0 |-> config, prompted |-> TRUE, typed |-> typed, ok |-> ok]
                 /\ IF ok /\ Truthy(text)
                    THEN IF fsWritable
                         THEN config' = save_api_key(text) /\ phase' = "ready"
                         ELSE config' = config /\ phase' = "failed"
                    ELSE config' = config /\ phase' = "ready"
    /\ current_dialog' = NoDialog
    /\ UNCHANGED <<fsWritable, clipOk, clipboard, inv, imageVars>>

\* One tray-menu handler on_proofread .. on_list: process_option on the
\* clipboard text, with the API's answer drawn from `outcomes`.
ProcessOption(outcomes) ==
    /\ phase = "ready"
    /\ ~crashed
    /\ ~inv.called
    /\ \E option \in HandlerOptions, api \in outcomes :
       LET input_text == get_selected_text
           result == IF api.kind = "text" THEN strip(api.content) ELSE <<>>
       IN
       \E l1 \in DetectOutcomes(input_text), l2 \in DetectOutcomes(input_text),
          l3 \in DetectOutcomes(result), abort \in AbortChoices :
          LET r == process_option(option, input_text, api_key, <<l1, l2, l3>>, api)
              copies == OfType(r.events, "copy")
              shown == OfType(r.events, "dialog") # <<>>
              ds1 == CloseCurrent(current_dialog, dialogs)
              rp == Reap(ResultDlg, execStack, ds1, workers, abort)
          IN  /\ inv' = [called |-> TRUE, option |-> option, input_text |-> input_text,
                         api |-> IF OfType(r.events, "request") # <<>>
                                 THEN api ELSE NoInvocation.api,
                         events |-> r.events, detections |-> r.detections,
                         propagated |-> r.propagated, before |-> clipboard]
              /\ clipboard' = IF copies # <<>> THEN copies[Len(copies)].text ELSE clipboard
              /\ IF shown
                 THEN /\ current_dialog' = ResultDlg
                      /\ dialogs' = rp.dialogs
                      /\ workers' = rp.workers
                      /\ crashed' = rp.crashed
                 ELSE UNCHANGED <<current_dialog, dialogs, workers, crashed>>
    /\ UNCHANGED <<phase, config, fsWritable, boot, api_key, clipOk, execStack>>

(***************************************************************************)
(* The image dialog's handlers and workers                                 *)
(***************************************************************************)
\* Tray menu "Generate Image": on_generate_image up to dialog.exec().
OnGenerateImage ==
    /\ phase = "ready"
    /\ ~crashed
    /\ Len(dialogs) < MaxDialogs
    /\ \E abort \in AbortChoices :
       LET d == Len(dialogs) + 1
           ds1 == Append(CloseCurrent(current_dialog, dialogs), NewDialog)
           stack == Append(execStack, d)
           rp == Reap(ImageRef(d), stack, ds1, workers, abort)
       IN  /\ current_dialog' = ImageRef(d)
           /\ execStack' = stack
           /\ dialogs' = rp.dialogs
           /\ workers' = rp.workers
           /\ crashed' = rp.crashed
    /\ UNCHANGED textVars

\* "Close Window" (or the window's close box) on the visible dialog.
CloseWindow(d) ==
    /\ ~crashed
    /\ dialogs[d].st = "open"
    /\ dialogs' = [dialogs EXCEPT ![d].st = "closed"]
    /\ UNCHANGED <<textVars, current_dialog, execStack, workers, crashed>>

\* The innermost dialog.exec() returns once its dialog is closed, and
\* on_generate_image returns with it: its local `dialog` is released.
ExecReturn ==
    /\ ~crashed
    /\ execStack # <<>>
    /\ dialogs[execStack[Len(execStack)]].st # "open"
    /\ \E abort \in AbortChoices :
       LET stack == SubSeq(execStack, 1, Len(execStack) - 1)
           rp == Reap(current_dialog, stack, dialogs, workers, abort)
       IN  /\ execStack' = stack
           /\ dialogs' = rp.dialogs
           /\ workers' = rp.workers
           /\ crashed' = rp.crashed
    /\ UNCHANGED <<textVars, current_dialog>>

\* Python's cycle collector frees a dialog that only its own lambda keeps alive.
Collect(d) ==
    /\ ~crashed
    /\ Unreferenced(current_dialog, execStack, dialogs, d)
    /\ Cyclic(dialogs, d)
    /\ \E abort \in AbortChoices :
       LET rp == DestroyAll({d}, dialogs, workers, abort)
       IN  /\ dialogs' = rp.dialogs
           /\ workers' = rp.workers
           /\ crashed' = rp.crashed
    /\ UNCHANGED <<textVars, current_dialog, execStack>>

\* The user types a prompt into prompt_input.
EditPrompt(d, p) ==
    /\ ~crashed
    /\ dialogs[d].st = "open"
    /\ dialogs[d].prompt_input # p
    /\ dialogs' = [dialogs EXCEPT ![d].prompt_input = p]
    /\ UNCHANGED <<textVars, current_dialog, execStack, workers, crashed>>

\* "Use Last Prompt".
use_last_prompt(d) ==
    /\ ~crashed
    /\ dialogs[d].st = "open"
    /\ dialogs[d].last_prompt # ""
    /\ dialogs[d].prompt_input # dialogs[d].last_prompt
    /\ dialogs' = [dialogs EXCEPT ![d].prompt_input = dialogs[d].last_prompt]
    /\ UNCHANGED <<textVars, current_dialog, execStack, workers, crashed>>

generate_image_button_stays_enabled(d) ==
    /\ ~crashed
    /\ dialogs[d].st = "open"
    /\ dialogs[d].generate_button
    /\ Len(workers) < MaxWorkers
    /\ \E abort \in AbortChoices :
       LET w == Len(workers) + 1
           ov == Overwrite(dialogs, workers, dialogs[d].thread, abort)
       IN  /\ dialogs' = [dialogs EXCEPT ![d].image_label = Label("text", "Generating image..."),
                                         ![d].thread = w]
           /\ workers' = Append(ov.workers,
                  IF ov.crashed
                  THEN Over(NewWorker("gen", d, ""), "killed")
                  ELSE NewWorker("gen", d, dialogs[d].prompt_input))
           /\ crashed' = ov.crashed
    /\ UNCHANGED <<textVars, current_dialog, execStack>>

\* "Generate Image" button: generate_image.
generate_image(d) ==
    /\ ~crashed
    /\ dialogs[d].st = "open"
    /\ dialogs[d].generate_button
    /\ Len(workers) < MaxWorkers
    /\ \E abort \in AbortChoices :
       LET w == Len(workers) + 1
           ov == Overwrite(dialogs, workers, dialogs[d].thread, abort)
       IN  /\ dialogs' = [dialogs EXCEPT ![d].generate_button = FALSE,
                                         ![d].image_label = Label("text", "Generating image..."),
                                         ![d].thread = w]
           /\ workers' = Append(ov.workers,
                  IF ov.crashed
                  THEN Over(NewWorker("gen", d, ""), "killed")
                  ELSE NewWorker("gen", d, dialogs[d].prompt_input))
           /\ crashed' = ov.crashed
    /\ UNCHANGED <<textVars, current_dialog, execStack>>

\* ImageGenerationThread.run: replicate.run returns `out` or raises, and the
\* worker emits finished(list) or error(str), queued to the dialog's thread.
ImageGenerationThread_run(w, outputs) ==
    /\ ~crashed
    /\ workers[w].kind = "gen"
    /\ workers[w].state = "running"
    /\ \E raised \in BOOLEAN : \E out \in (IF raised THEN {NoOutput} ELSE outputs) :
       workers' = [workers EXCEPT ![w] =
           IF dialogs[workers[w].dialog].st = "destroyed"
           THEN Over(@, "discarded")
           ELSE IF raised
           THEN [@ EXCEPT !.state = "emitted", !.signal = "error"]
           ELSE [@ EXCEPT !.state = "emitted", !.signal = "finished",
                          !.raw = out, !.payload = normalise(out)]]
    /\ UNCHANGED <<textVars, current_dialog, execStack, dialogs, crashed>>

\* ImageDownloadThread.run: requests.get(url) succeeds or raises.
ImageDownloadThread_run(w) ==
    /\ ~crashed
    /\ workers[w].kind = "dl"
    /\ workers[w].state = "running"
    /\ \E raised \in BOOLEAN :
       workers' = [workers EXCEPT ![w] =
           IF dialogs[workers[w].dialog].st = "destroyed"
           THEN Over(@, "discarded")
           ELSE IF raised
           THEN [@ EXCEPT !.state = "emitted", !.signal = "error"]
           ELSE [@ EXCEPT !.state = "emitted", !.signal = "finished",
                          !.payload = <<workers[w].arg>>]]
    /\ UNCHANGED <<textVars, current_dialog, execStack, dialogs, crashed>>

\* The URL on_generation_finished shows and downloads (line 168).
on_generation_finished_url(output) == output[1]

\* The event loop delivers a generation worker's queued signal:
\* on_generation_finished or on_generation_error.
DeliverGeneration(w) ==
    /\ ~crashed
    /\ workers[w].kind = "gen"
    /\ workers[w].state = "emitted"
    /\ LET d == workers[w].dialog
           output == workers[w].payload
       IN
       IF workers[w].signal = "error"
       THEN /\ dialogs' = [dialogs EXCEPT ![d].generate_button = TRUE,
                                          ![d].image_label = Label("text", "Error generating image")]
            /\ workers' = [workers EXCEPT ![w] = Over(@, "handled")]
            /\ UNCHANGED crashed
       ELSE IF output = <<>>
       THEN /\ dialogs' = [dialogs EXCEPT ![d].generate_button = TRUE,
                                          ![d].last_prompt = dialogs[d].prompt_input]
            /\ workers' = [workers EXCEPT ![w] = Over(@, "handled")]
            /\ UNCHANGED crashed
       ELSE /\ Len(workers) < MaxWorkers
            /\ \E abort \in AbortChoices :
               LET url == on_generation_finished_url(output)
                   ov == Overwrite(dialogs, workers, dialogs[d].download_thread, abort)
                   dl == Len(workers) + 1
               IN  IF ov.crashed
                   THEN /\ dialogs' = [dialogs EXCEPT ![d].output_url = url]
                        /\ workers' = [ov.workers EXCEPT ![w] = Over(@, "handled")]
                        /\ crashed' = TRUE
                   ELSE /\ dialogs' = [dialogs EXCEPT ![d].output_url = url,
                                                      ![d].download_thread = dl,
                                                      ![d].last_prompt = dialogs[d].prompt_input,
                                                      ![d].generate_button = TRUE]
                        /\ workers' = Append([workers EXCEPT ![w] = Over(@, "handled")],
                                             NewWorker("dl", d, url))
                        /\ UNCHANGED crashed
    /\ UNCHANGED <<textVars, current_dialog, execStack>>

\* The event loop delivers a download worker's queued signal: display_image,
\* or the lambda that only sets the status label.
DeliverDownload(w) ==
    /\ ~crashed
    /\ workers[w].kind = "dl"
    /\ workers[w].state = "emitted"
    /\ LET d == workers[w].dialog
       IN  dialogs' = IF workers[w].signal = "finished"
                      THEN [dialogs EXCEPT ![d].image_label = Label("pixmap", workers[w].payload[1])]
                      ELSE dialogs
    /\ workers' = [workers EXCEPT ![w] = Over(@, "handled")]
    /\ UNCHANGED <<textVars, current_dialog, execStack, crashed>>

(***************************************************************************)
(* Specifications                                                          *)
(***************************************************************************)
NoImages ==
    /\ current_dialog = NoDialog
    /\ execStack = <<>>
    /\ dialogs = <<>>
    /\ workers = <<>>
    /\ crashed = FALSE

FewTexts == TextsOfLen(0) \cup TextsOfLen(1)

FewApiOutcomes ==
    {[kind |-> "text", content |-> <<" ", "a">>],
     [kind |-> "text", content |-> <<"#">>],
     [kind |-> "error", content |-> <<>>]}

\* Process start with any config.json, followed by transformations.
Init ==
    /\ phase = "boot"
    /\ config \in ConfigFiles
    /\ fsWritable \in BOOLEAN
    /\ boot = NotBooted
    /\ api_key = None
    /\ clipOk \in BOOLEAN
    /\ clipboard \in FewTexts
    /\ inv = NoInvocation
    /\ NoImages

Next ==
    \/ \E typed \in Keys \cup {""}, ok \in BOOLEAN : LoadApiKey(typed, ok)
    \/ ProcessOption(FewApiOutcomes)

Spec == Init /\ [][Next]_vars

\* The application after startup, with or without a key, and any clipboard
\* text; transformations with any API answer.
InitText ==
    /\ phase = "ready"
    /\ \/ /\ config = Absent
          /\ api_key = ""
          /\ boot = [cfg0 |-> Absent, prompted |-> TRUE, typed |-> "", ok |-> FALSE]
       \/ /\ config = Json("k1")
          /\ api_key = "k1"
          /\ boot = [cfg0 |-> Json("k1"), prompted |-> FALSE, typed |-> "", ok |-> FALSE]
    /\ fsWritable = TRUE
    /\ clipOk \in BOOLEAN
    /\ clipboard \in Texts
    /\ inv = NoInvocation
    /\ NoImages

NextText == ProcessOption(ApiOutcomes)

SpecText == InitText /\ [][NextText]_vars

\* The application after startup; image dialogs opened from the tray menu.
InitImage ==
    /\ phase = "ready"
    /\ config = Json("k1")
    /\ api_key = "k1"
    /\ boot = [cfg0 |-> Json("k1"), prompted |-> FALSE, typed |-> "", ok |-> FALSE]
    /\ fsWritable = TRUE
    /\ clipOk = TRUE
    /\ clipboard = <<>>
    /\ inv = NoInvocation
    /\ NoImages

\* Dialogs opened, closed and reopened from the tray menu while workers run;
\* the prompt field is left as created.
NextImage ==
    \/ OnGenerateImage
    \/ ExecReturn
    \/ \E d \in 1..Len(dialogs) :
        \/ CloseWindow(d)
        \/ Collect(d)
        \/ generate_image(d)
    \/ \E w \in 1..Len(workers) :
        \/ ImageGenerationThread_run(w, OneUrl)
        \/ ImageDownloadThread_run(w)
        \/ DeliverGeneration(w)
        \/ DeliverDownload(w)

SpecImage == InitImage /\ [][NextImage]_vars

\* One dialog, opened once, with everything its user can do in it.
NextDialog ==
    \/ dialogs = <<>> /\ OnGenerateImage
    \/ ExecReturn
    \/ \E d \in 1..Len(dialogs) :
        \/ CloseWindow(d)
        \/ \E p \in Prompts : EditPrompt(d, p)
        \/ use_last_prompt(d)
        \/ generate_image(d)
    \/ \E w \in 1..Len(workers) :
        \/ ImageGenerationThread_run(w, FewOutputs)
        \/ ImageDownloadThread_run(w)
        \/ DeliverGeneration(w)
        \/ DeliverDownload(w)

SpecDialog == InitImage /\ [][NextDialog]_vars

\* One generation in one dialog, for every result the service can return.
NextAdapter ==
    \/ dialogs = <<>> /\ OnGenerateImage
    \/ \E d \in 1..Len(dialogs) :
        \/ \E p \in Prompts : EditPrompt(d, p)
        \/ workers = <<>> /\ generate_image(d)
    \/ \E w \in 1..Len(workers) :
        \/ ImageGenerationThread_run(w, ServiceOutputs)
        \/ ImageDownloadThread_run(w)
        \/ DeliverGeneration(w)
        \/ DeliverDownload(w)

SpecAdapter == InitImage /\ [][NextAdapter]_vars

(***************************************************************************)
(* Properties                                                              *)
(***************************************************************************)
Requests == OfType(inv.events, "request")
Errors == OfType(inv.events, "error")
Dialogs == OfType(inv.events, "dialog")

\* The invocation sent its request and the API answered with text.
ReturnedText == inv.called /\ Requests # <<>> /\ inv.api.kind = "text"

KeyMissing == api_key = None \/ api_key = ""

\* C1 as stated: with the API key missing, any invocation, whatever the
\* clipboard text, shows "API Key Missing" and issues no request.
C1_Original ==
    inv.called /\ KeyMissing =>
        /\ inv.events = <<show_error_message("API Key Missing")>>
        /\ Requests = <<>>

\* C1 amended: with the API key missing no invocation issues a request; it
\* shows exactly "API Key Missing" when the clipboard text is non-empty, and
\* exactly "No Text Selected" when it is empty.
C1_Amended ==
    inv.called /\ KeyMissing =>
        /\ Requests = <<>>
        /\ inv.input_text # <<>> => inv.events = <<show_error_message("API Key Missing")>>
        /\ inv.input_text = <<>> => inv.events = <<show_error_message("No Text Selected")>>

C1_Witness ==
    /\ inv.called
    /\ KeyMissing
    /\ inv.input_text # <<>>
    /\ inv.option = "Key Points"

\* C2: whenever the remote call returned text, the invocation ends by
\* writing that text to the clipboard and then showing the result dialog;
\* the only other thing shown is the "Language Mismatch" warning, before
\* those two steps, and it is shown exactly when the two labels differ.
C2_MismatchNeverBlocks ==
    ReturnedText =>
        LET ev == inv.events
            n == Len(ev)
            warning == show_error_message("Language Mismatch")
            differ == inv.detections[2].label # inv.detections[3].label
        IN  /\ n >= 3
            /\ ev[n].type = "dialog"
            /\ ev[n - 1] = Copy(strip(inv.api.content))
            /\ clipboard = strip(inv.api.content)
            /\ current_dialog = ResultDlg
            /\ ev[1].type = "request"
            /\ Errors = IF differ THEN <<warning>> ELSE <<>>
            /\ differ => n = 4 /\ ev[2] = warning
            /\ ~differ => n = 3

C2_Witness ==
    /\ ReturnedText
    /\ inv.detections[2].label # inv.detections[3].label
    /\ Dialogs # <<>>
    /\ clipboard = <<"a">>

\* C3: an invocation issues at most one request, exactly one when the input
\* is non-empty and the key is present; when the request fails exactly one
\* error message is shown, there is no second request, and no exception
\* leaves process_option.
C3_OneRequestNoRetry ==
    inv.called =>
        /\ Len(Requests) <= 1
        /\ inv.input_text # <<>> /\ ~KeyMissing => Len(Requests) = 1
        /\ ~inv.propagated
        /\ Requests # <<>> /\ inv.api.kind # "text" =>
              /\ inv.events = <<Requests[1], show_error_message("Error")>>
              /\ clipboard = inv.before

C3_Witness ==
    /\ inv.called
    /\ Requests # <<>>
    /\ inv.api.kind = "error"
    /\ Len(Errors) = 1

InFlight(w) == workers[w].state \in {"running", "emitted"}

\* C4 as stated: every started worker delivers exactly one of finished and
\* error and the dialog handles it: no worker ends without having emitted,
\* and no emitted signal is dropped unhandled.
C4_ExactlyOneCallback ==
    \A w \in 1..Len(workers) :
        /\ workers[w].state \in {"running", "emitted", "handled"}
        /\ workers[w].state = "emitted" => workers[w].signal \in {"finished", "error"}

GenerationsInFlight(ds) ==
    {w \in 1..Len(workers) : /\ workers[w].kind = "gen"
                             /\ InFlight(w)
                             /\ workers[w].dialog \in ds}

\* C5 as stated: never two generation workers started and not yet delivered.
C5_Original == Cardinality(GenerationsInFlight(1..Len(dialogs))) <= 1

\* C5 amended: each dialog has at most one generation worker started and not
\* yet delivered, and its Generate button is disabled while it has one.
C5_Amended ==
    \A d \in 1..Len(dialogs) :
        /\ Cardinality(GenerationsInFlight({d})) <= 1
        /\ GenerationsInFlight({d}) # {} /\ dialogs[d].st # "destroyed"
              => ~dialogs[d].generate_button

C5_Witness ==
    /\ Len(dialogs) >= 2
    /\ GenerationsInFlight({1}) # {}
    /\ GenerationsInFlight({2}) # {}
    /\ dialogs[2].st = "open"

Labels == [t \in {Fail} \cup Codes |->
              IF t = Fail THEN "Unknown"
              ELSE IF t = "pt" THEN "Portuguese (European)"
              ELSE IF t = "en" THEN "English"
              ELSE "Other (" \o t \o ")"]

HasLetter(text) == \E i \in 1..Len(text) : text[i] = "a"

\* C6 as stated: pt, en, any other code c and a classifier failure give
\* "Portuguese (European)", "English", "Other(c)" and "Unknown".
C6_Original ==
    \A i \in 1..Len(inv.detections) :
        LET det == inv.detections[i] IN
        det.label = IF det.lang = Fail THEN "Unknown"
                    ELSE IF det.lang = "pt" THEN "Portuguese (European)"
                    ELSE IF det.lang = "en" THEN "English"
                    ELSE "Other(" \o det.lang \o ")"

\* C6 amended: as stated, except that any other code c gives "Other (c)",
\* with a space before the parenthesis; text the classifier cannot classify
\* (empty, or without letters) gives "Unknown".
C6_Amended ==
    \A i \in 1..Len(inv.detections) :
        LET det == inv.detections[i] IN
        /\ det.label = Labels[det.lang]
        /\ ~HasLetter(det.text) => det.label = "Unknown"

C6_Witness ==
    /\ Len(inv.detections) = 3
    /\ inv.detections[2].lang = "fr"
    /\ inv.detections[3].lang = Fail
    /\ inv.detections[3].text = <<>>

\* C7: each of the nine handlers passes a key of the prompt table, so every
\* invocation with text and a key sends a request, and the prompt sent holds
\* the preamble, the operation's instruction, the input-language label and
\* the input text.
C7_PromptComplete ==
    /\ Cardinality(HandlerOptions) = 9
    /\ HandlerOptions \subseteq DOMAIN instruction
    /\ inv.called /\ inv.input_text # <<>> /\ ~KeyMissing =>
          /\ Len(Requests) = 1
          /\ LET sent == Requests[1].text IN
             /\ Contains(sent, <<base_instruction>>)
             /\ Contains(sent, <<instruction[inv.option]>>)
             /\ Contains(sent, <<"\n\nInput text language: ", inv.detections[1].label>>)
             /\ Contains(sent, inv.input_text)
             /\ inv.detections[1].text = inv.input_text

C7_Witness ==
    /\ inv.called
    /\ Requests # <<>>
    /\ inv.option = "Key Points"
    /\ inv.input_text = <<"#", "a">>

\* C8 as stated: after a successful transformation the clipboard holds the
\* stripped first choice, and the result dialog displays that same text.
C8_Original ==
    ReturnedText =>
        /\ clipboard = strip(inv.api.content)
        /\ Contains(Dialogs[1].text, clipboard)

\* C8 amended: the clipboard holds the first choice without its leading and
\* trailing whitespace; for every operation but Table the dialog shows that
\* text verbatim; for Table it shows the text converted from Markdown to
\* HTML, in which a text that starts a Markdown header does not appear
\* verbatim.
C8_Amended ==
    ReturnedText =>
        LET content == inv.api.content
            shown == Dialogs[1].text
        IN  /\ Len(clipboard) <= Len(content)
            /\ clipboard = <<>> \/ (clipboard[1] # " " /\ clipboard[Len(clipboard)] # " ")
            /\ \E i \in 0..(Len(content) - Len(clipboard)) :
                  /\ SubSeq(content, i + 1, i + Len(clipboard)) = clipboard
                  /\ \A j \in (1..i) \cup ((i + Len(clipboard) + 1)..Len(content)) :
                        content[j] = " "
            /\ Len(Dialogs) = 1
            /\ inv.option # "Table" =>
                  shown = <<"Option: ", inv.option, "\n\n">> \o clipboard \o <<"\n\n", Copied>>
            /\ inv.option = "Table" =>
                  /\ shown[1] = "<h3>Option: "
                  /\ Contains(shown, clipboard) <=> (clipboard = <<>> \/ clipboard[1] # "#")

C8_Witness ==
    /\ ReturnedText
    /\ inv.option = "Table"
    /\ inv.api.content = <<" ", "#">>
    /\ clipboard = <<"#">>

\* C9: the list a generation worker emits has one string per element of a
\* list result, in the same order, and holds just the string form of a
\* result that is not a list; when the dialog handles a non-empty list its
\* output URL becomes the first element.
C9_Normalised ==
    \A w \in 1..Len(workers) :
        workers[w].kind = "gen" /\ workers[w].state = "emitted"
            /\ workers[w].signal = "finished" =>
        LET raw == workers[w].raw
            out == workers[w].payload
        IN  /\ Len(out) = IF raw.list THEN Len(raw.items) ELSE 1
            /\ \A i \in 1..Len(out) : out[i] \in Urls /\ out[i] = raw.items[i].url

C9_FirstUrl ==
    \A w \in 1..Len(workers) :
        /\ workers[w].kind = "gen"
        /\ workers[w].state = "emitted"
        /\ workers[w].signal = "finished"
        /\ workers[w].payload # <<>>
        /\ workers'[w].state = "handled"
        => dialogs'[workers[w].dialog].output_url = workers[w].payload[1]

C9_UrlSequence == []C9_Normalised /\ [][C9_FirstUrl]_vars

C9_Witness ==
    /\ Len(workers) = 2
    /\ workers[1].state = "handled"
    /\ workers[2].kind = "dl"
    /\ dialogs[1].output_url = "u2"

\* C10: once load_api_key has returned, a missing or empty key in
\* config.json means the user was prompted, a non-empty answer that was
\* accepted is what config.json holds, and whenever the key in memory is
\* non-empty config.json holds exactly that key.
C10_KeyPersisted ==
    phase = "ready" =>
        /\ boot.cfg0 = Absent \/ ~Truthy(boot.cfg0.api_key) => boot.prompted
        /\ boot.prompted /\ boot.ok /\ boot.typed # "" =>
              config = [state |-> "json", api_key |-> boot.typed] /\ api_key = boot.typed
        /\ Truthy(api_key) => config = [state |-> "json", api_key |-> api_key]

C10_Witness ==
    /\ phase = "ready"
    /\ boot.cfg0 = Absent
    /\ boot.prompted
    /\ api_key = "k2"
    /\ config = [state |-> "json", api_key |-> "k2"]

\* C11 as stated: in every live image dialog, a preview displayed by
\* display_image is the image downloaded from the URL that the output-URL
\* field shows; a download started for an earlier generation is never on
\* display next to a later generation's URL.
C11_PreviewMatchesUrl ==
    \A d \in 1..Len(dialogs) :
        dialogs[d].st # "destroyed" /\ dialogs[d].image_label.kind = "pixmap" =>
            dialogs[d].image_label.of = dialogs[d].output_url

\* C12 as stated: when on_generation_finished handles a generation worker's
\* result, the dialog's last_prompt becomes the prompt that was sent to that
\* worker, whatever the prompt field was edited to while it ran.
C12_LastPromptIsSent ==
    [][\A w \in 1..Len(workers) :
          /\ workers[w].kind = "gen"
          /\ workers[w].state = "emitted"
          /\ workers[w].signal = "finished"
          /\ workers'[w].state = "handled"
          /\ ~crashed'
          => dialogs'[workers[w].dialog].last_prompt = workers[w].arg]_vars

Copies == OfType(inv.events, "copy")

\* Position of the first event of a type in the invocation's events, 0 if none.
FirstOf(type) ==
    IF OfType(inv.events, type) = <<>> THEN 0
    ELSE CHOOSE i \in 1..Len(inv.events) :
            /\ inv.events[i].type = type
            /\ \A j \in 1..(i - 1) : inv.events[j].type # type

\* The invocation ended in one of the three failing outcomes.
FailingOutcome ==
    \/ inv.input_text = <<>>
    \/ KeyMissing
    \/ Requests # <<>> /\ inv.api.kind # "text"

\* C13: process_option writes the clipboard only after the remote call has
\* returned text; with empty input, a missing API key or a remote call that
\* raises, the clipboard keeps its content and no result dialog is opened.
C13_ClipboardFrame ==
    inv.called =>
        /\ Copies # <<>> => ReturnedText /\ FirstOf("request") < FirstOf("copy")
        /\ clipboard # inv.before => Copies # <<>>
        /\ FailingOutcome =>
              /\ Copies = <<>>
              /\ clipboard = inv.before
              /\ Dialogs = <<>>
              /\ current_dialog # ResultDlg

C13_Witness ==
    /\ inv.called
    /\ inv.input_text # <<>>
    /\ ~KeyMissing
    /\ Requests # <<>>
    /\ inv.api.kind = "error"
    /\ Errors = <<show_error_message("Error")>>
    /\ clipboard = inv.before
    /\ clipboard # <<>>

====
